---- MODULE Spec2Model ----
(***************************************************************************)
(* Model of the VRP optimizer's routing core:                              *)
(*   OptimizationService.optimize   src/src/services/optimization_service.py *)
(*   CustomConstraintManager        src/src/services/custom_constraint_manager.py *)
(*   Shipment / Location / DataService.process_excel                       *)
(*                                  src/src/core/models.py,                *)
(*                                  src/src/services/data_service.py       *)
(*                                                                         *)
(* optimize is modelled statement by statement (pc is its position), with  *)
(* Python's try / except Exception / finally semantics.  The routing       *)
(* library (ortools) is modelled by what the posted constraints mean: a    *)
(* dimension bounds a cumulative value at every node of a route, and       *)
(* SolveWithParameters returns an assignment that visits every node (the   *)
(* code posts no disjunction, so no node is optional) and satisfies every  *)
(* posted constraint, or nothing when no such assignment exists.           *)
(*                                                                         *)
(* Three methods of OptimizationService have no implementation in the      *)
(* source (_create_data_model, _add_lifo_constraints, _create_solution:    *)
(* "Implementation here..."), and MonitoringSystem has no start/stop.      *)
(* They are modelled from the specification (sections 4.2, 4.5, 9, 1).     *)
(*                                                                         *)
(* The search inside SolveWithParameters follows the search parameters:    *)
(* the first solution strategy builds a first assignment (or fails), the   *)
(* local search metaheuristic then keeps or improves the best assignment   *)
(* until the time limit, and the best assignment is returned.              *)
(*                                                                         *)
(* Vehicles are interchangeable (same capacity, same depot), so an         *)
(* assignment is kept as the list of its non-empty routes, ordered by the  *)
(* smallest node of each route.                                            *)
(***************************************************************************)
EXTENDS Integers, Sequences, FiniteSets, TLC

\* ------------------------------------------------------------------ bounds
\* Largest number of shipments handed to one optimize call.
MaxLen == 3

\* Largest number of shipments with delivery windows handed to one call.
MaxWindowed == 2

\* Seconds of wall-clock time one round of local search takes.
MoveSeconds == 150

\* ------------------------------------------------------------- constants
\* Settings.MAX_PALLETS, the vehicle capacity of _add_capacity_constraint.
MAX_PALLETS == 20

\* Settings.MAX_COMPUTATION_TIME, in seconds: the search time limit.
MAX_COMPUTATION_TIME == 300

None == "None"
\* An optional argument left out (Python's default None) is the empty tuple,
\* a supplied value v is <<v>>.
Omitted == <<>>

\* --------------------------------------------------------------- inputs
\* Pallet counts: 10 + 10 fills a vehicle, 26 (the largest count the input
\* validator ShipmentData accepts) exceeds MAX_PALLETS on its own.
PalletChoices == {10, 26}

\* A Shipment, as far as the core reads it: its pallet count, whether its
\* origin and destination carry coordinates, and its optional delivery_time
\* (the window [start, end] of its delivery).  Its id is its index in the list.
ShipmentSet ==
    {sp \in [pallet_count : PalletChoices, located : BOOLEAN,
             delivery_time : {Omitted}] :
        ~sp.located => sp.pallet_count = 10}

ShipmentLists == UNION {[1..n -> ShipmentSet] : n \in 0..MaxLen}

\* Shipments with a delivery window: [0, 2] is met only by a delivery made
\* straight after its pickup at the start of a route (unit travel times).
WindowedShipmentSet ==
    {sp \in [pallet_count : {10}, located : BOOLEAN,
             delivery_time : {Omitted, <<0, 2>>}] :
        ~sp.located => sp.delivery_time = Omitted}

WindowedShipmentLists ==
    UNION {[1..n -> WindowedShipmentSet] : n \in 0..MaxWindowed}

\* Settings values of a deployment.  MAX_SHIPMENTS and MAX_VEHICLES are scaled
\* down from their defaults (1000, 10).  MAX_ROUTE_TIME and
\* FEATURE_CUSTOM_CONSTRAINTS are read by optimize but not declared by
\* Settings: they exist only when the deployment supplies them
\* (Settings.Config.extra = "allow"), and extra names the ones supplied.
\* FEATURE_CUSTOM_CONSTRAINTS = TRUE is left out: it calls
\* CustomConstraintManager.apply_constraints, which no source defines.
ExtraAttributes == {"MAX_ROUTE_TIME", "FEATURE_CUSTOM_CONSTRAINTS"}

SettingsSet ==
    {st \in [MAX_SHIPMENTS : {1, 3},
             MAX_VEHICLES : {1, 5},
             MAX_PALLETS : {MAX_PALLETS},
             MAX_COMPUTATION_TIME : {MAX_COMPUTATION_TIME},
             MAX_ROUTE_TIME : {3, 9},
             FEATURE_CUSTOM_CONSTRAINTS : {FALSE},
             extra : SUBSET ExtraAttributes] :
        "MAX_ROUTE_TIME" \notin st.extra => st.MAX_ROUTE_TIME = 3}

HasAttr(st, name) == name \in st.extra

ConstraintTypes == {"lifo", "time_windows", "capacity", "distance"}

\* ------------------------------------------------------------- helpers
Range(s) == {s[i] : i \in 1..Len(s)}

Min(S) == CHOOSE x \in S : \A y \in S : x <= y

RECURSIVE SumSeq(_)
SumSeq(s) == IF s = <<>> THEN 0 ELSE s[1] + SumSeq(Tail(s))

Pos(r, v) == CHOOSE i \in 1..Len(r) : r[i] = v

\* ------------------------------------------------------------ node model
\* Shipment at index k (0-based) has pickup node 2k and delivery node 2k+1.
PickupNode(k) == 2 * k
DeliveryNode(k) == 2 * k + 1

\* _create_data_model: nodes 2k / 2k+1 per shipment, the depot appended with
\* demand 0, unit travel time and distance between distinct nodes.
_create_data_model(sh, st) ==
    LET n == Len(sh)
        nodes == 0..(2 * n)
    IN [num_shipments |-> n,
        num_locations |-> 2 * n + 1,
        num_vehicles |-> st.MAX_VEHICLES,
        depot |-> 2 * n,
        demands |-> [v \in nodes |->
                       IF v = 2 * n THEN 0
                       ELSE IF v % 2 = 0 THEN sh[(v \div 2) + 1].pallet_count
                       ELSE 0 - sh[(v \div 2) + 1].pallet_count],
        time_windows |-> [v \in nodes |->
                            IF v # 2 * n /\ v % 2 = 1
                            THEN sh[(v \div 2) + 1].delivery_time
                            ELSE Omitted],
        distance_matrix |-> [i \in nodes |-> [j \in nodes |-> IF i = j THEN 0 ELSE 1]],
        time_matrix |-> [i \in nodes |-> [j \in nodes |-> IF i = j THEN 0 ELSE 1]]]

\* The matrix builder fails fast on a shipment without coordinates.
MissingCoordinates(sh) == \E i \in 1..Len(sh) : ~sh[i].located

\* --------------------------------------------------- routing model (ortools)
\* RoutingModel(manager): no dimension and no pair posted yet.
NoDimension == [posted |-> FALSE]

Dimension(slack_max, capacity) ==
    [posted |-> TRUE, slack_max |-> slack_max, capacity |-> capacity]

RoutingModel(d) ==
    [data |-> d, Capacity |-> NoDimension, Time |-> NoDimension,
     LIFO |-> NoDimension, pairs |-> {}]

\* _get_demand_callback / demand_callback: the demand of the node.
demand_callback(d, node) == d.demands[node]

\* _get_time_callback: the travel time between two nodes.
_get_time_callback(d, from_node, to_node) == d.time_matrix[from_node][to_node]

\* A variant of the capacity dimension that hard-codes the 26 pallets of a
\* full trailer (the largest pallet count a shipment may have) instead of
\* reading MAX_PALLETS.
_add_capacity_constraint_trailer(rm, st) ==
    [rm EXCEPT !.Capacity = Dimension(0, 26)]

\* OptimizationService._add_capacity_constraint: a dimension over the demand
\* callback, slack 0, capacity MAX_PALLETS for every vehicle, start cumul 0.
\* It is posted whatever configs["capacity"].enabled says.
_add_capacity_constraint(rm, st) ==
    [rm EXCEPT !.Capacity = Dimension(0, st.MAX_PALLETS)]

\* A variant that posts each pair the other way round.
add_lifo_constraints_reversed(rm, cfgs) ==
    IF ~cfgs["lifo"].enabled THEN rm
    ELSE LET half == rm.data.num_locations \div 2
         IN [rm EXCEPT !.LIFO = Dimension(0, rm.data.num_vehicles),
                       !.pairs = {<<request + half, request>> : request \in 0..(half - 1)}]

\* CustomConstraintManager.add_lifo_constraints: nothing when the dimension
\* is disabled; otherwise a dimension growing by 1 per visited index, slack 0,
\* capacity num_vehicles, start cumul 0, and for every request in
\* range(num_locations // 2) the pair (request, request + num_locations // 2)
\* as pickup and delivery with cumul(pickup) < cumul(delivery).
add_lifo_constraints(rm, cfgs) ==
    IF ~cfgs["lifo"].enabled THEN rm
    ELSE LET half == rm.data.num_locations \div 2
         IN [rm EXCEPT !.LIFO = Dimension(0, rm.data.num_vehicles),
                       !.pairs = {<<request, request + half>> : request \in 0..(half - 1)}]

\* OptimizationService._add_lifo_constraints has no body in the source; the
\* service owns a CustomConstraintManager and the specification (section 9)
\* describes the source's LIFO dimension as the manager's.
_add_lifo_constraints(rm, cfgs) == add_lifo_constraints(rm, cfgs)

\* OptimizationService._add_time_windows_constraints: a dimension over the
\* travel time, slack 30, capacity MAX_ROUTE_TIME, start cumul 0.  No node
\* gets a window.
_add_time_windows_constraints(rm, st) ==
    [rm EXCEPT !.Time = Dimension(30, st.MAX_ROUTE_TIME)]

\* Cumul of the Capacity dimension after the first k stops of route r (the
\* depot's demand is 0; k = Len(r) is the cumul at the route's end).
CapacityCumul(d, r, k) == SumSeq([i \in 1..k |-> demand_callback(d, r[i])])

\* Cumul of the LIFO dimension at the route's end: 1 per index left,
\* the start included.
LifoCumulEnd(r) == Len(r) + 1

\* Smallest cumul of the Time dimension at the end of route r (no waiting).
TimeCumulEnd(d, r) ==
    IF r = <<>> THEN 0
    ELSE _get_time_callback(d, d.depot, r[1])
         + SumSeq([i \in 1..(Len(r) - 1) |-> _get_time_callback(d, r[i], r[i + 1])])
         + _get_time_callback(d, r[Len(r)], d.depot)

\* The dimensions' bounds on one route.  Every cumul lies in [0, capacity];
\* the LIFO and Time cumuls only grow, so their last value decides.
DimensionsOK(rm, r) ==
    /\ rm.Capacity.posted =>
          \A k \in 0..Len(r) :
             /\ CapacityCumul(rm.data, r, k) >= 0
             /\ CapacityCumul(rm.data, r, k) <= rm.Capacity.capacity
    /\ rm.LIFO.posted => LifoCumulEnd(r) <= rm.LIFO.capacity
    /\ rm.Time.posted => TimeCumulEnd(rm.data, r) <= rm.Time.capacity

\* AddPickupAndDelivery plus cumul(pickup) < cumul(delivery): a route holds
\* both nodes of a posted pair or neither, the pickup node first.
PairsOK(rm, r) ==
    \A pr \in rm.pairs :
       /\ (pr[1] \in Range(r)) <=> (pr[2] \in Range(r))
       /\ pr[1] \in Range(r) => Pos(r, pr[1]) < Pos(r, pr[2])

\* Every route over nodes of rem that extends prefix within the dimensions.
RECURSIVE RoutesFrom(_, _, _)
RoutesFrom(rm, prefix, rem) ==
    {prefix} \cup
    UNION {RoutesFrom(rm, Append(prefix, x), rem \ {x}) :
              x \in {y \in rem : DimensionsOK(rm, Append(prefix, y))}}

\* Every way to cover the nodes of rem with non-empty feasible routes.
RECURSIVE Covers(_, _)
Covers(rm, rem) ==
    IF rem = {} THEN {<<>>}
    ELSE LET first == Min(rem)
             heads == {r \in RoutesFrom(rm, <<>>, rem) :
                          first \in Range(r) /\ PairsOK(rm, r)}
         IN UNION {{<<r>> \o rest : rest \in Covers(rm, rem \ Range(r))} :
                      r \in heads}

\* The assignments SolveWithParameters can return: every shipment node on
\* exactly one route, at most num_vehicles routes in use.
FeasibleAssignments(rm) ==
    {a \in Covers(rm, 0..(rm.data.depot - 1)) : Len(a) <= rm.data.num_vehicles}

\* ------------------------------------------------------ solution extractor
StopOf(node) ==
    IF node % 2 = 0 THEN <<"pickup", (node \div 2) + 1>>
    ELSE <<"delivery", (node \div 2) + 1>>

RouteDistance(d, r) ==
    d.distance_matrix[d.depot][r[1]]
    + SumSeq([i \in 1..(Len(r) - 1) |-> d.distance_matrix[r[i]][r[i + 1]]])
    + d.distance_matrix[r[Len(r)]][d.depot]

\* _create_solution: a Route per used vehicle, the totals, and the shipments
\* with neither node on any route as unassigned.
_create_solution(d, a) ==
    LET routes == [i \in 1..Len(a) |->
                     [stops |-> [j \in 1..Len(a[i]) |-> StopOf(a[i][j])],
                      total_distance |-> RouteDistance(d, a[i])]]
        routed == UNION {Range(a[i]) : i \in 1..Len(a)}
    IN [kind |-> "Solution",
        routes |-> routes,
        total_distance |-> SumSeq([i \in 1..Len(a) |-> routes[i].total_distance]),
        unassigned_shipments |->
            {k \in 1..d.num_shipments :
                PickupNode(k - 1) \notin routed /\ DeliveryNode(k - 1) \notin routed}]

\* ------------------------------------------------------- constraint configs
\* CustomConstraintManager.__init__
InitialConfigs ==
    [t \in ConstraintTypes |->
        CASE t = "lifo" -> [enabled |-> TRUE, weight |-> 2, penalty |-> 1000]
          [] t = "time_windows" -> [enabled |-> TRUE, weight |-> 1, penalty |-> 500]
          [] t = "capacity" -> [enabled |-> TRUE, weight |-> 3, penalty |-> 2000]
          [] t = "distance" -> [enabled |-> TRUE, weight |-> 1, penalty |-> 800]]

\* A variant of update_config's body that puts the dataclass defaults in place
\* of a weight or penalty that is not supplied.
UpdatedConfig_defaults(config, enabled, weight, penalty) ==
    [enabled |-> enabled,
     weight |-> IF weight # Omitted THEN weight[1] ELSE 1,
     penalty |-> IF penalty # Omitted THEN penalty[1] ELSE 1000]

\* The body of update_config for a known constraint type.
UpdatedConfig(config, enabled, weight, penalty) ==
    [enabled |-> enabled,
     weight |-> IF weight # Omitted THEN weight[1] ELSE config.weight,
     penalty |-> IF penalty # Omitted THEN penalty[1] ELSE config.penalty]

\* ------------------------------------------------------- validate_solution
\* The solution handed to validate_solution is a list of routes, each a list
\* of objects read through .is_pickup and .id.  kind "pickup" / "delivery"
\* is an object with is_pickup True / False; kind "shipment" is a plain
\* Shipment, which has no is_pickup attribute.  Shipment 1 carries 10
\* pallets and shipment 2 carries 15.
MaxStops == 3

StopItems ==
    {[id |-> i, kind |-> k, pallet_count |-> IF i = 1 THEN 10 ELSE 15] :
        i \in {1, 2}, k \in {"pickup", "delivery", "shipment"}}

RouteInputs(maxlen) == UNION {[1..n -> StopItems] : n \in 0..maxlen}

SolutionInputs ==
    {<<r>> : r \in RouteInputs(MaxStops)}
    \cup {<<r1, r2>> : r1 \in RouteInputs(2), r2 \in RouteInputs(2)}

NoVerdict == [is_valid |-> FALSE, error |-> "unset"]
Verdict(is_valid, error) == [is_valid |-> is_valid, error |-> error]

\* The inner loop of validate_solution over one route, from stop i on with
\* the stack active_shipments: "ok" when the loop ends, "lifo" when it
\* returns the LIFO violation, "error" when reading is_pickup raises.
RECURSIVE CheckRoute(_, _, _)
CheckRoute(route, i, active_shipments) ==
    IF i > Len(route) THEN "ok"
    ELSE IF route[i].kind = "shipment" THEN "error"
    ELSE IF route[i].kind = "pickup"
         THEN CheckRoute(route, i + 1, Append(active_shipments, route[i].id))
    ELSE IF active_shipments = <<>>
            \/ active_shipments[Len(active_shipments)] # route[i].id
         THEN "lifo"
    ELSE CheckRoute(route, i + 1, SubSeq(active_shipments, 1, Len(active_shipments) - 1))

\* The loop over the routes, from route j on.
RECURSIVE CheckRoutes(_, _)
CheckRoutes(solution, j) ==
    IF j > Len(solution) THEN "ok"
    ELSE LET c == CheckRoute(solution[j], 1, <<>>)
         IN IF c = "ok" THEN CheckRoutes(solution, j + 1) ELSE c

\* A variant of validate_solution that simulates the stack whatever the
\* lifo flag says.
validate_solution_always(solution, cfgs) ==
    LET c == CheckRoutes(solution, 1)
    IN IF c = "lifo" THEN Verdict(FALSE, "LIFO constraint violation")
       ELSE IF c = "error" THEN Verdict(FALSE, "Validation error")
       ELSE Verdict(TRUE, None)

\* CustomConstraintManager.validate_solution
validate_solution(solution, cfgs) ==
    IF ~cfgs["lifo"].enabled THEN Verdict(TRUE, None)
    ELSE LET c == CheckRoutes(solution, 1)
         IN IF c = "lifo" THEN Verdict(FALSE, "LIFO constraint violation")
            ELSE IF c = "error" THEN Verdict(FALSE, "Validation error")
            ELSE Verdict(TRUE, None)

\* ------------------------------------------------------------------ state
VARIABLES
    settings,      \* the service's Settings
    configs,       \* custom_constraint_manager.configs
    config_error,  \* what the last update_config raised, or None
    pc,            \* position of the optimize call in progress, "idle", "done"
    shipments,     \* the argument of the call
    monitor,       \* memory_monitor: start / stop calls, and whose run is current
    data,          \* data model of the call, NoData before it is built
    routing,       \* routing model of the call, NoRouting before it is created
    searched,      \* SolveWithParameters ran during the call
    assignment,    \* what SolveWithParameters returned, NoAssignment for None
    exc,           \* exception in flight, NoException when there is none
    retval,        \* value of the return statement reached, Unset before
    result,        \* what the caller got: a value or a raised exception
    search_parameters, \* the parameters handed to SolveWithParameters
    engine,        \* the solver's search: phase, best assignment, seconds spent
    stats,         \* whose monitoring run get_stats_summary reported to the call
    validated,     \* the argument of the last validate_solution call
    verdict,       \* what that call returned
    config_call,   \* the last update_config call a caller recorded: its
                   \* arguments and the configs it found
    data_service   \* DataService: its cache files, what process_excel returned,
                   \* and the Shipment objects built by callers

vars == <<settings, configs, config_error, pc, shipments, monitor, data, routing,
          searched, assignment, exc, retval, result, search_parameters, engine,
          stats, validated, verdict, config_call, data_service>>

\* What optimize and validate_solution never touch.
other_vars == <<config_call, data_service>>

call_vars == <<shipments, monitor, data, routing, searched, assignment, exc,
               retval, result, search_parameters, engine, stats>>

NoData == [built |-> FALSE]
NoRouting == [created |-> FALSE]
NoAssignment == [found |-> FALSE]
Assignment(a) == [found |-> TRUE, routes |-> a]
NoException == [type |-> "None", message |-> ""]
Unset == [kind |-> "unset"]
Pending == [kind |-> "pending"]
NoSolution == [kind |-> "None"]
Raised(e) == [kind |-> "raised", type |-> e.type, message |-> e.message]
Exception(type, message) == [type |-> type, message |-> message]

\* No search parameters built yet.
NoParameters == [built |-> FALSE]

\* The solver before SolveWithParameters is entered.
IdleEngine == [phase |-> "Idle", best |-> NoAssignment, elapsed |-> 0, feasible |-> {}]

\* No update_config call recorded.
NoCall == [made |-> FALSE]

\* A DataService with an empty cache directory that has processed nothing.
NoFiles == [cache |-> {}, results |-> <<>>, built |-> <<>>]

ServiceInit ==
    /\ settings \in SettingsSet
    /\ configs = InitialConfigs
    /\ config_error = None
    /\ pc = "idle"
    /\ shipments = <<>>
    /\ monitor = [started |-> 0, stopped |-> 0, run |-> "none"]
    /\ stats = "unset"
    /\ data = NoData
    /\ routing = NoRouting
    /\ searched = FALSE
    /\ assignment = NoAssignment
    /\ exc = NoException
    /\ retval = Unset
    /\ result = Pending
    /\ search_parameters = NoParameters
    /\ engine = IdleEngine
    /\ verdict = NoVerdict
    /\ config_call = NoCall
    /\ data_service = NoFiles

Init ==
    /\ ServiceInit
    /\ validated = <<>>

\* A statement of the try block raises: control goes to the except clause.
Raise(e) ==
    /\ exc' = e
    /\ pc' = "except"

\* ---------------------------------------------------------- update_config
\* CustomConstraintManager.update_config, called between optimize calls and
\* before the service is used.
update_config(constraint_type, enabled, weight, penalty) ==
    /\ pc = "idle"
    /\ IF constraint_type \notin DOMAIN configs
       THEN /\ config_error' = "ValueError"
            /\ UNCHANGED configs
       ELSE /\ configs' = [configs EXCEPT ![constraint_type] =
                              UpdatedConfig(configs[constraint_type], enabled, weight, penalty)]
            /\ config_error' = None
    /\ UNCHANGED <<validated, verdict, settings, pc, call_vars>>
    /\ UNCHANGED data_service

\* --------------------------------------------------------------- optimize
\* The caller invokes optimize(shipments); the call's locals start afresh.
optimize(sh) ==
    /\ pc \in {"idle", "done"}
    /\ pc' = "start"
    /\ shipments' = sh
    /\ monitor' = [started |-> 0, stopped |-> 0,
                   run |-> IF monitor.run = "none" THEN "none" ELSE "other"]
    /\ stats' = "unset"
    /\ data' = NoData
    /\ routing' = NoRouting
    /\ searched' = FALSE
    /\ assignment' = NoAssignment
    /\ exc' = NoException
    /\ retval' = Unset
    /\ result' = Pending
    /\ search_parameters' = NoParameters
    /\ engine' = IdleEngine
    /\ UNCHANGED <<validated, verdict, settings, configs, config_error>>
    /\ UNCHANGED other_vars

\* line 31: self.memory_monitor.start() begins a monitoring run on the one
\* MonitoringSystem instance; the run is now this call's.
MonitorStart ==
    /\ pc = "start"
    /\ monitor' = [monitor EXCEPT !.started = @ + 1, !.run = "this"]
    /\ pc' = "validate"
    /\ UNCHANGED <<stats, search_parameters, engine, validated, verdict, settings, configs,
                   config_error, shipments, data, routing,
                   searched, assignment, exc, retval, result>>
    /\ UNCHANGED other_vars

\* A variant of the limit check that lets one shipment too many through.
TooManyShipments_late(sh, st) == Len(sh) > st.MAX_SHIPMENTS + 1

\* lines 34-37: the shipment count against MAX_SHIPMENTS
TooManyShipments(sh, st) == Len(sh) > st.MAX_SHIPMENTS

ValidateInput ==
    /\ pc = "validate"
    /\ IF TooManyShipments(shipments, settings)
       THEN Raise(Exception("ResourceExhaustedError", "Too many shipments"))
       ELSE /\ pc' = "data_model"
            /\ UNCHANGED exc
    /\ UNCHANGED <<stats, search_parameters, engine, validated, verdict, settings, configs,
                   config_error, shipments, monitor, data,
                   routing, searched, assignment, retval, result>>
    /\ UNCHANGED other_vars

\* line 40: data = self._create_data_model(shipments)
CreateDataModel ==
    /\ pc = "data_model"
    /\ IF MissingCoordinates(shipments)
       THEN /\ Raise(Exception("GeocodingDependencyError", "missing coordinates"))
            /\ UNCHANGED data
       ELSE /\ data' = _create_data_model(shipments, settings)
            /\ pc' = "routing_model"
            /\ UNCHANGED exc
    /\ UNCHANGED <<stats, search_parameters, engine, validated, verdict, settings, configs,
                   config_error, shipments, monitor, routing,
                   searched, assignment, retval, result>>
    /\ UNCHANGED other_vars

\* lines 43-54: index manager, routing model, arc cost evaluator
CreateRoutingModel ==
    /\ pc = "routing_model"
    /\ routing' = RoutingModel(data)
    /\ pc' = "capacity"
    /\ UNCHANGED <<stats, search_parameters, engine, validated, verdict, settings, configs,
                   config_error, shipments, monitor, data,
                   searched, assignment, exc, retval, result>>
    /\ UNCHANGED other_vars

\* line 57
AddCapacityConstraint ==
    /\ pc = "capacity"
    /\ routing' = _add_capacity_constraint(routing, settings)
    /\ pc' = "lifo"
    /\ UNCHANGED <<stats, search_parameters, engine, validated, verdict, settings, configs,
                   config_error, shipments, monitor, data,
                   searched, assignment, exc, retval, result>>
    /\ UNCHANGED other_vars

\* line 60
AddLifoConstraints ==
    /\ pc = "lifo"
    /\ routing' = _add_lifo_constraints(routing, configs)
    /\ pc' = "time_windows"
    /\ UNCHANGED <<stats, search_parameters, engine, validated, verdict, settings, configs,
                   config_error, shipments, monitor, data,
                   searched, assignment, exc, retval, result>>
    /\ UNCHANGED other_vars

\* line 63; reading self.settings.MAX_ROUTE_TIME (line 157) raises when the
\* settings carry no such attribute
AddTimeWindowsConstraints ==
    /\ pc = "time_windows"
    /\ IF ~HasAttr(settings, "MAX_ROUTE_TIME")
       THEN /\ Raise(Exception("AttributeError", "MAX_ROUTE_TIME"))
            /\ UNCHANGED routing
       ELSE /\ routing' = _add_time_windows_constraints(routing, settings)
            /\ pc' = "custom"
            /\ UNCHANGED exc
    /\ UNCHANGED <<stats, search_parameters, engine, validated, verdict, settings, configs,
                   config_error, shipments, monitor, data,
                   searched, assignment, retval, result>>
    /\ UNCHANGED other_vars

\* lines 66-67: if self.settings.FEATURE_CUSTOM_CONSTRAINTS
ApplyCustomConstraints ==
    /\ pc = "custom"
    /\ IF ~HasAttr(settings, "FEATURE_CUSTOM_CONSTRAINTS")
       THEN Raise(Exception("AttributeError", "FEATURE_CUSTOM_CONSTRAINTS"))
       ELSE /\ ~settings.FEATURE_CUSTOM_CONSTRAINTS
            /\ pc' = "solve"
            /\ UNCHANGED exc
    /\ UNCHANGED <<stats, search_parameters, engine, validated, verdict, settings, configs,
                   config_error, shipments, monitor, data,
                   routing, searched, assignment, retval, result>>
    /\ UNCHANGED other_vars

\* lines 70-73: solution = routing.SolveWithParameters(search_parameters)
FirstSolutions(feasible) ==
    IF feasible = {} THEN {NoAssignment} ELSE {Assignment(a) : a \in feasible}

SolveWithParameters(rm) == FirstSolutions(FeasibleAssignments(rm))

\* Cost of an assignment: the arc cost evaluator summed over its routes.
Cost(d, a) == SumSeq([i \in 1..Len(a) |-> RouteDistance(d, a[i])])

\* The assignments a round of local search can move to from best: those
\* satisfying the posted constraints that cost less.
Better(d, feasible, best) ==
    {Assignment(a) : a \in {b \in feasible : Cost(d, b) < Cost(d, best.routes)}}

\* A variant of _get_search_parameters that takes MAX_COMPUTATION_TIME for
\* minutes.
_get_search_parameters_minutes(st) ==
    [built |-> TRUE,
     first_solution_strategy |-> "PARALLEL_CHEAPEST_INSERTION",
     local_search_metaheuristic |-> "GUIDED_LOCAL_SEARCH",
     time_limit |-> st.MAX_COMPUTATION_TIME * 60,
     log_search |-> TRUE]

\* OptimizationService._get_search_parameters
_get_search_parameters(st) ==
    [built |-> TRUE,
     first_solution_strategy |-> "PARALLEL_CHEAPEST_INSERTION",
     local_search_metaheuristic |-> "GUIDED_LOCAL_SEARCH",
     time_limit |-> st.MAX_COMPUTATION_TIME,
     log_search |-> TRUE]

\* lines 70-73: the parameters are built and SolveWithParameters is entered;
\* the solver starts with its first solution strategy.
Solve ==
    /\ pc = "solve"
    /\ search_parameters' = _get_search_parameters(settings)
    /\ engine' = [IdleEngine EXCEPT !.phase = "Constructing",
                                    !.feasible = FeasibleAssignments(routing)]
    /\ searched' = TRUE
    /\ pc' = "search"
    /\ UNCHANGED <<stats, validated, verdict, settings, configs, config_error,
                   shipments, monitor, data, routing, assignment, exc, retval, result>>
    /\ UNCHANGED other_vars

\* A variant in which a first solution ends the search at once.
PhaseAfterConstructing_done(seed) == IF seed.found THEN "Done" ELSE "Failed"

\* The phase that follows the first solution strategy.
PhaseAfterConstructing(seed) == IF seed.found THEN "Improving" ELSE "Failed"

\* The first solution strategy ends: with a first assignment the local
\* search starts, without one SolveWithParameters returns None.
Construct ==
    /\ pc = "search"
    /\ engine.phase = "Constructing"
    /\ \E seed \in FirstSolutions(engine.feasible) :
          /\ engine' = [engine EXCEPT !.phase = PhaseAfterConstructing(seed),
                                      !.best = seed]
          /\ IF seed.found
             THEN UNCHANGED <<assignment, pc>>
             ELSE /\ assignment' = NoAssignment
                  /\ pc' = "extract"
    /\ UNCHANGED <<stats, search_parameters, validated, verdict, settings, configs,
                   config_error, shipments, monitor, data, routing, searched,
                   exc, retval, result>>
    /\ UNCHANGED other_vars

\* One round of the local search metaheuristic within the time limit: the
\* best assignment is kept or replaced by a cheaper one.
Improve ==
    /\ pc = "search"
    /\ engine.phase = "Improving"
    /\ engine.elapsed < search_parameters.time_limit
    /\ \E b \in {engine.best} \cup Better(data, engine.feasible, engine.best) :
          engine' = [engine EXCEPT !.best = b, !.elapsed = @ + MoveSeconds]
    /\ UNCHANGED <<stats, search_parameters, validated, verdict, settings, configs,
                   config_error, pc, shipments, monitor, data, routing, searched,
                   assignment, exc, retval, result>>
    /\ UNCHANGED other_vars

\* The time limit is reached: SolveWithParameters returns the best
\* assignment found.
Finish ==
    /\ pc = "search"
    /\ engine.phase = "Improving"
    /\ engine.elapsed >= search_parameters.time_limit
    /\ engine' = [engine EXCEPT !.phase = "Done", !.feasible = {}]
    /\ assignment' = engine.best
    /\ pc' = "extract"
    /\ UNCHANGED <<stats, search_parameters, validated, verdict, settings, configs,
                   config_error, shipments, monitor, data, routing, searched,
                   exc, retval, result>>
    /\ UNCHANGED other_vars

\* lines 75-79: return self._create_solution(...) if solution else None
ReturnValue(d, a) == IF a.found THEN _create_solution(d, a.routes) ELSE NoSolution

Return ==
    /\ pc = "extract"
    /\ retval' = ReturnValue(data, assignment)
    /\ pc' = "finally"
    /\ UNCHANGED <<stats, search_parameters, engine, validated, verdict, settings, configs,
                   config_error, shipments, monitor, data,
                   routing, searched, assignment, exc, result>>
    /\ UNCHANGED other_vars

\* A variant of the except clause that drops the cause's message.
Handled_blank(e) == Exception("OptimizationError", "")

\* lines 81-83: except Exception as e: raise OptimizationError(str(e))
Handled(e) == Exception("OptimizationError", e.message)

Except ==
    /\ pc = "except"
    /\ exc' = Handled(exc)
    /\ pc' = "finally"
    /\ UNCHANGED <<stats, search_parameters, engine, validated, verdict, settings, configs,
                   config_error, shipments, monitor, data,
                   routing, searched, assignment, retval, result>>
    /\ UNCHANGED other_vars

\* lines 85-92: finally: self.memory_monitor.stop(), the stats summary of the
\* monitoring run is read and logged; then the call ends with the value
\* returned or the exception raised
Outcome(e, rv) == IF e # NoException THEN Raised(e) ELSE rv

\* A variant in which stop() is the last statement of the try block instead
\* of the finally clause: it is skipped when an exception is in flight.
Finally_in_try ==
    /\ pc = "finally"
    /\ monitor' = IF exc = NoException
                  THEN [monitor EXCEPT !.stopped = @ + 1] ELSE monitor
    /\ stats' = monitor.run
    /\ result' = Outcome(exc, retval)
    /\ pc' = "done"
    /\ UNCHANGED <<search_parameters, engine, validated, verdict, settings, configs,
                   config_error, shipments, data, routing,
                   searched, assignment, exc, retval>>
    /\ UNCHANGED other_vars

\* The finally clause, run on every way out of the try block.
Finally ==
    /\ pc = "finally"
    /\ monitor' = [monitor EXCEPT !.stopped = @ + 1]
    /\ stats' = monitor.run
    /\ result' = Outcome(exc, retval)
    /\ pc' = "done"
    /\ UNCHANGED <<search_parameters, engine, validated, verdict, settings, configs,
                   config_error, shipments, data, routing,
                   searched, assignment, exc, retval>>
    /\ UNCHANGED other_vars

Next ==
    \/ \E t \in ConstraintTypes, e \in BOOLEAN :
          update_config(t, e, Omitted, Omitted) /\ UNCHANGED config_call
    \/ \E sh \in ShipmentLists : optimize(sh)
    \/ MonitorStart
    \/ ValidateInput
    \/ CreateDataModel
    \/ CreateRoutingModel
    \/ AddCapacityConstraint
    \/ AddLifoConstraints
    \/ AddTimeWindowsConstraints
    \/ ApplyCustomConstraints
    \/ Solve
    \/ Construct
    \/ Improve
    \/ Finish
    \/ Return
    \/ Except
    \/ Finally

Spec == Init /\ [][Next]_vars

\* The call is one synchronous computation: once the time limit is reached
\* the solver does return.
\* Line 31 executed by another optimize call that runs concurrently on the
\* same service: its start() begins a run on the same MonitoringSystem
\* instance.  The rest of that call works on its own locals.
ConcurrentMonitorStart ==
    /\ pc \notin {"idle", "done"}
    /\ monitor.run # "other"
    /\ monitor' = [monitor EXCEPT !.run = "other"]
    /\ UNCHANGED <<stats, search_parameters, engine, validated, verdict, settings,
                   configs, config_error, pc, shipments, data, routing, searched,
                   assignment, exc, retval, result>>
    /\ UNCHANGED other_vars

InitConcurrent ==
    /\ Init
    /\ settings.extra = ExtraAttributes

NextConcurrent ==
    \/ Next
    \/ ConcurrentMonitorStart

SpecConcurrent == InitConcurrent /\ [][NextConcurrent]_vars

\* The service called with shipments that carry delivery windows.
InitWindows ==
    /\ Init
    /\ settings.extra = ExtraAttributes

NextWindows ==
    \/ \E t \in ConstraintTypes, e \in BOOLEAN :
          update_config(t, e, Omitted, Omitted) /\ UNCHANGED config_call
    \/ \E sh \in WindowedShipmentLists : optimize(sh)
    \/ MonitorStart
    \/ ValidateInput
    \/ CreateDataModel
    \/ CreateRoutingModel
    \/ AddCapacityConstraint
    \/ AddLifoConstraints
    \/ AddTimeWindowsConstraints
    \/ ApplyCustomConstraints
    \/ Solve
    \/ Construct
    \/ Improve
    \/ Finish
    \/ Return
    \/ Except
    \/ Finally

SpecWindows == InitWindows /\ [][NextWindows]_vars

InitTimed ==
    /\ Init
    /\ settings.extra = ExtraAttributes

SpecTimed == InitTimed /\ [][Next]_vars /\ WF_vars(Finish)

\* ------------------------------------------- validate_solution on its own
\* A caller configures the manager and then validates the materialized
\* solution it holds.
ValidateSolution ==
    /\ pc = "idle"
    /\ verdict = NoVerdict
    /\ verdict' = validate_solution(validated, configs)
    /\ UNCHANGED <<validated, settings, configs, config_error, pc, call_vars>>
    /\ UNCHANGED other_vars

ConfigureValidation(constraint_type, enabled) ==
    /\ verdict = NoVerdict
    /\ update_config(constraint_type, enabled, Omitted, Omitted)
    /\ UNCHANGED config_call

InitValidate ==
    /\ ServiceInit
    /\ settings.MAX_SHIPMENTS = 1
    /\ settings.MAX_VEHICLES = 1
    /\ settings.extra = {}
    /\ validated \in SolutionInputs

NextValidate ==
    \/ \E t \in ConstraintTypes, e \in BOOLEAN : ConfigureValidation(t, e)
    \/ ValidateSolution

SpecValidate == InitValidate /\ [][NextValidate]_vars

\* ------------------------------------- the manager's LIFO constraints alone
\* Largest number of requests in the data handed to add_lifo_constraints.
MaxRequests == 2

\* The data add_lifo_constraints reads: num_locations and num_vehicles.  It
\* takes node request as the pickup and node request + num_locations // 2 as
\* the delivery of each request; the last node is the depot.
ManagerData(requests, vehicles) ==
    [num_locations |-> 2 * requests + 1, num_vehicles |-> vehicles,
     depot |-> 2 * requests]

\* The stop a node stands for in the manager's numbering, as the object
\* validate_solution reads (is_pickup, id).
ManagerStop(d, node) ==
    LET half == d.num_locations \div 2
        id == (node % half) + 1
    IN [id |-> id,
        kind |-> IF node < half THEN "pickup" ELSE "delivery",
        pallet_count |-> IF id = 1 THEN 10 ELSE 15]

\* Every order in which one vehicle can visit all nodes of S.
RECURSIVE VisitOrders(_)
VisitOrders(S) ==
    IF S = {} THEN {<<>>}
    ELSE UNION {{<<x>> \o p : p \in VisitOrders(S \ {x})} : x \in S}

\* A routing model is created over the data and add_lifo_constraints is
\* called on it.
PostLifo(requests, vehicles) ==
    /\ pc = "idle"
    /\ routing = NoRouting
    /\ routing' = add_lifo_constraints(RoutingModel(ManagerData(requests, vehicles)),
                                       configs)
    /\ UNCHANGED <<settings, configs, config_error, pc, shipments, monitor, data,
                   searched, assignment, exc, retval, result, search_parameters,
                   engine, stats, validated, verdict, other_vars>>

\* The solver returns a route of one vehicle through all nodes that the
\* posted pairs and dimensions admit; the caller materializes its stops.
AdmitRoute ==
    /\ pc = "idle"
    /\ routing # NoRouting
    /\ ~assignment.found
    /\ verdict = NoVerdict
    /\ \E r \in VisitOrders(0..(routing.data.depot - 1)) :
          /\ PairsOK(routing, r)
          /\ DimensionsOK(routing, r)
          /\ assignment' = Assignment(<<r>>)
          /\ validated' = <<[i \in 1..Len(r) |-> ManagerStop(routing.data, r[i])]>>
    /\ UNCHANGED <<settings, configs, config_error, pc, shipments, monitor, data,
                   routing, searched, exc, retval, result, search_parameters,
                   engine, stats, verdict, other_vars>>

InitLifo ==
    /\ Init
    /\ settings.MAX_SHIPMENTS = 1
    /\ settings.MAX_VEHICLES = 1
    /\ settings.extra = {}

NextLifo ==
    \/ \E t \in ConstraintTypes, e \in BOOLEAN : ConfigureValidation(t, e)
    \/ \E requests \in 1..MaxRequests, vehicles \in {1, 3, 5} :
          PostLifo(requests, vehicles)
    \/ AdmitRoute
    \/ ValidateSolution

SpecLifo == InitLifo /\ [][NextLifo]_vars

\* --------------------------------------------- configuring the constraints
\* A caller configures the manager between optimize calls with weights and
\* penalties of its choice, valid or not, and with constraint types the
\* manager knows or not; the call's arguments are recorded.
UpdateArguments ==
    [constraint_type : {"lifo", "capacity", "fuel"},
     enabled : BOOLEAN,
     weight : {Omitted, <<-1>>},
     penalty : {Omitted, <<-1>>}]

RecordedCall(args) ==
    [made |-> TRUE, constraint_type |-> args.constraint_type,
     enabled |-> args.enabled, weight |-> args.weight, penalty |-> args.penalty]

CallUpdateConfig(args) ==
    /\ update_config(args.constraint_type, args.enabled, args.weight, args.penalty)
    /\ config_call' = RecordedCall(args)

InitConfigure ==
    /\ Init
    /\ settings.extra = ExtraAttributes
    /\ settings.MAX_SHIPMENTS = 1
    /\ settings.MAX_VEHICLES = 5
    /\ settings.MAX_ROUTE_TIME = 9

NextConfigure ==
    \/ \E args \in UpdateArguments : CallUpdateConfig(args)
    \/ \E sh \in {s \in ShipmentLists : Len(s) <= 1} : optimize(sh)
    \/ MonitorStart
    \/ ValidateInput
    \/ CreateDataModel
    \/ CreateRoutingModel
    \/ AddCapacityConstraint
    \/ AddLifoConstraints
    \/ AddTimeWindowsConstraints
    \/ ApplyCustomConstraints
    \/ Solve
    \/ Construct
    \/ Improve
    \/ Finish
    \/ Return
    \/ Except
    \/ Finally

SpecConfigure == InitConfigure /\ [][NextConfigure]_vars

\* ------------------------------------------------- Shipment serialization
\* An optional value (Optional[float], Optional[datetime], a JSON null) is
\* Omitted when it is None and <<v>> when it is the value v.
\*
\* A float: a number, or the IEEE not-a-number that float() makes of an empty
\* spreadsheet cell.  == on floats is false whenever either side is NaN.
Float(x) == [nan |-> FALSE, value |-> x]
NaN == [nan |-> TRUE, value |-> 0]

FloatEq(a, b) == ~a.nan /\ ~b.nan /\ a.value = b.value

\* A naive datetime, as far as its ISO text shows it: whole seconds and
\* microseconds.
DateTimes == {[second |-> 0, microsecond |-> 0], [second |-> 1, microsecond |-> 5]}

\* datetime.isoformat: the seconds, and the microseconds only when they are
\* not 0 ("...T10:00:01" or "...T10:00:01.000005").
isoformat(dt) ==
    IF dt.microsecond = 0 THEN <<dt.second>> ELSE <<dt.second, dt.microsecond>>

\* datetime.fromisoformat: microseconds are 0 when the text has none.
fromisoformat(text) ==
    [second |-> text[1],
     microsecond |-> IF Len(text) > 1 THEN text[2] ELSE 0]

\* Location(city, state): lat and lng default to None.
Location(city) == [city |-> city, lat |-> Omitted, lng |-> Omitted]

\* Location.to_dict / Location.from_dict copy the four fields.
Location_to_dict(loc) == [city |-> loc.city, lat |-> loc.lat, lng |-> loc.lng]

Location_from_dict(d) == [city |-> d.city, lat |-> d.lat, lng |-> d.lng]

\* Shipment(...): a dataclass; its generated __init__ stores the arguments
\* as they are.
Shipment(id, origin, destination, pallet_count, volume, pickup_time) ==
    [id |-> id, origin |-> origin, destination |-> destination,
     pallet_count |-> pallet_count, volume |-> volume, pickup_time |-> pickup_time]

\* Shipment.to_dict: the times as ISO text, or None when they are not set.
Shipment_to_dict(s) ==
    [id |-> s.id,
     origin |-> Location_to_dict(s.origin),
     destination |-> Location_to_dict(s.destination),
     pallet_count |-> s.pallet_count,
     volume |-> s.volume,
     pickup_time |-> IF s.pickup_time # Omitted
                     THEN isoformat(s.pickup_time[1]) ELSE Omitted]

\* Shipment.from_dict: the times parsed from their ISO text when the text is
\* not empty.
Shipment_from_dict(d) ==
    Shipment(d.id, Location_from_dict(d.origin), Location_from_dict(d.destination),
             d.pallet_count, d.volume,
             IF d.pickup_time # Omitted
             THEN <<fromisoformat(d.pickup_time)>> ELSE Omitted)

\* json.dumps / json.loads of one number or null: None is written as null,
\* NaN as the token NaN, a number as its digits; loads reads each back.
json_dumps_number(v) ==
    IF v = Omitted THEN [token |-> "null", digits |-> 0]
    ELSE IF v[1].nan THEN [token |-> "NaN", digits |-> 0]
    ELSE [token |-> "number", digits |-> v[1].value]

json_loads_number(t) ==
    IF t.token = "null" THEN Omitted
    ELSE IF t.token = "NaN" THEN <<NaN>>
    ELSE <<Float(t.digits)>>

\* json.dumps / json.loads of the dict of one shipment (strings, integers and
\* the ISO text are written and read back as they are).
json_dumps(d) == [d EXCEPT !.volume = json_dumps_number(d.volume)]

json_loads(text) == [text EXCEPT !.volume = json_loads_number(text.volume)]

\* Optional[float] == Optional[float] in Python, between two distinct objects.
OptionalFloatEq(a, b) ==
    IF a = Omitted \/ b = Omitted THEN a = b ELSE FloatEq(a[1], b[1])

\* Shipment.__eq__ (generated by @dataclass): the fields compared in order,
\* between two objects that share no field object.
ShipmentEq(a, b) ==
    /\ a.id = b.id
    /\ a.origin = b.origin
    /\ a.destination = b.destination
    /\ a.pallet_count = b.pallet_count
    /\ OptionalFloatEq(a.volume, b.volume)
    /\ a.pickup_time = b.pickup_time

\* ------------------------------------------------------------ DataService
\* Largest number of rows of an uploaded spreadsheet.
MaxRows == 2

\* A row of a spreadsheet: its pallet count, its Volume cell (a number or
\* empty) and its Pickup Time cell.  The Volume and Pickup Time columns are
\* optional; a file without them has has_volume / has_pickup FALSE.
RowSet == [pallet_count : {10, 30}, volume : {"empty", "5"}, pickup : DateTimes]

\* The files a caller uploads: spreadsheets with the required columns, one
\* that lacks a required column and one larger than MAX_FILE_SIZE (which the
\* deployment supplies).
Files ==
    {f \in [kind : {"sheet"}, has_volume : BOOLEAN, has_pickup : BOOLEAN,
            rows : UNION {[1..n -> RowSet] : n \in 0..MaxRows}] :
        /\ ~f.has_volume => \A i \in 1..Len(f.rows) : f.rows[i].volume = "empty"
        /\ ~f.has_pickup => \A i \in 1..Len(f.rows) :
                               f.rows[i].pickup = [second |-> 0, microsecond |-> 0]}
    \cup [kind : {"too_large", "missing_columns"}, has_volume : {FALSE},
          has_pickup : {FALSE}, rows : {<<>>}]

\* ShipmentData.validate_pallet_count
validate_pallet_count(v) == 0 < v /\ v <= 26

\* float(row["Volume"]) if "Volume" in df.columns else None
VolumeOf(f, row) ==
    IF ~f.has_volume THEN Omitted
    ELSE IF row.volume = "empty" THEN <<NaN>>
    ELSE <<Float(5)>>

\* pd.to_datetime(row["Pickup Time"]) if "Pickup Time" in df.columns else None
PickupTimeOf(f, row) == IF f.has_pickup THEN <<row.pickup>> ELSE Omitted

\* lines 131-174: the rows that fail ShipmentData's validation
RowErrors(f) ==
    {i \in 1..Len(f.rows) : ~validate_pallet_count(f.rows[i].pallet_count)}

\* lines 151-171: the Shipment built from every row
ParsedShipments(f) ==
    [i \in 1..Len(f.rows) |->
        Shipment(i, Location("origin"), Location("destination"),
                 f.rows[i].pallet_count, VolumeOf(f, f.rows[i]),
                 PickupTimeOf(f, f.rows[i]))]

\* What process_excel returns: (success, errors, shipments); shipments is
\* the empty list when it is None.
ExcelResult(success, errors, sh) ==
    [success |-> success, errors |-> errors, shipments |-> sh]

\* The cache file of an upload is named after the MD5 hash of its content.
CacheFilesOf(f) == {c \in data_service.cache : c.file_hash = f}

\* DataService.process_excel on the file f: the size check, the cache read,
\* the parse with its validation, and the cache write.
process_excel(f) ==
    /\ Len(data_service.results) < 2
    /\ LET from_cache ==
              LET cached_data == (CHOOSE c \in CacheFilesOf(f) : TRUE).content
              IN ExcelResult(TRUE, "none",
                    [i \in 1..Len(cached_data) |->
                        Shipment_from_dict(json_loads(cached_data[i]))])
           fresh == ParsedShipments(f)
           returned ==
              IF f.kind = "too_large" THEN ExcelResult(FALSE, "size", <<>>)
              ELSE IF CacheFilesOf(f) # {} THEN from_cache
              ELSE IF f.kind = "missing_columns" THEN ExcelResult(FALSE, "columns", <<>>)
              ELSE IF RowErrors(f) # {} THEN ExcelResult(FALSE, "rows", <<>>)
              ELSE ExcelResult(TRUE, "none", fresh)
           written ==
              IF f.kind = "sheet" /\ CacheFilesOf(f) = {} /\ RowErrors(f) = {}
              THEN {[file_hash |-> f,
                     content |-> [i \in 1..Len(fresh) |->
                                    json_dumps(Shipment_to_dict(fresh[i]))]]}
              ELSE {}
       IN data_service' =
             [data_service EXCEPT
                 !.cache = @ \cup written,
                 !.results = Append(@, [file |-> f, returned |-> returned])]
    /\ UNCHANGED <<config_call, validated, verdict, settings, configs,
                   config_error, pc, call_vars>>

\* A caller builds a Shipment with the pallet count it was given.
NewShipment(pallet_count) ==
    /\ Len(data_service.built) < 1
    /\ data_service' =
          [data_service EXCEPT
              !.built = Append(@, Shipment(1, Location("origin"),
                                           Location("destination"),
                                           pallet_count, Omitted, Omitted))]
    /\ UNCHANGED <<config_call, validated, verdict, settings, configs,
                   config_error, pc, call_vars>>

InitData ==
    /\ Init
    /\ settings.extra = ExtraAttributes
    /\ settings.MAX_SHIPMENTS = 3
    /\ settings.MAX_VEHICLES = 1
    /\ settings.MAX_ROUTE_TIME = 3

NextData ==
    \/ \E f \in Files : process_excel(f)
    \/ \E p \in {10, 30} : NewShipment(p)

SpecData == InitData /\ [][NextData]_vars

\* ================================================================= claims
Returned == pc = "done" /\ result.kind = "Solution"

\* The input passes every check optimize and the data model make, and the
\* deployment supplies the settings attributes optimize reads.
RunsToSearch ==
    /\ Len(shipments) <= settings.MAX_SHIPMENTS
    /\ \A i \in 1..Len(shipments) : shipments[i].located
    /\ settings.extra = ExtraAttributes

\* Pallets a stop adds to the running sum.
StopPallets(stop) ==
    IF stop[1] = "pickup" THEN shipments[stop[2]].pallet_count
    ELSE 0 - shipments[stop[2]].pallet_count

RunningPallets(stops, k) == SumSeq([i \in 1..k |-> StopPallets(stops[i])])

\* Push on a pickup, pop and compare on a delivery, from stop i on.
RECURSIVE StackNeverMismatches(_, _, _)
StackNeverMismatches(stops, i, stack) ==
    IF i > Len(stops) THEN TRUE
    ELSE IF stops[i][1] = "pickup"
         THEN StackNeverMismatches(stops, i + 1, Append(stack, stops[i][2]))
    ELSE /\ stack # <<>>
         /\ stack[Len(stack)] = stops[i][2]
         /\ StackNeverMismatches(stops, i + 1, SubSeq(stack, 1, Len(stack) - 1))

\* Indices of the stops of shipment k of one kind in one route.
StopIndices(stops, type, k) == {i \in 1..Len(stops) : stops[i] = <<type, k>>}

\* Routes of the returned solution that hold a stop of shipment k.
RoutesOf(k) ==
    {j \in 1..Len(result.routes) :
        \E i \in 1..Len(result.routes[j].stops) : result.routes[j].stops[i][2] = k}

\* Shipment k has exactly one pickup and one delivery stop, in one route.
PlacedWhole(k) ==
    /\ Cardinality(RoutesOf(k)) = 1
    /\ \A j \in RoutesOf(k) :
          /\ Cardinality(StopIndices(result.routes[j].stops, "pickup", k)) = 1
          /\ Cardinality(StopIndices(result.routes[j].stops, "delivery", k)) = 1

\* C1: in every route of every Solution optimize returns, the stack simulated
\* over the stops (push on pickup, pop and match on delivery) never meets a
\* delivery that differs from the top of the stack, nor an empty stack.
C1_LifoInvariant ==
    Returned =>
       \A j \in 1..Len(result.routes) :
          StackNeverMismatches(result.routes[j].stops, 1, <<>>)

\* C2: in every route of every Solution optimize returns, the running pallet
\* sum after every prefix of the stops lies in [0, vehicle capacity].
C2_CapacityInvariant ==
    Returned =>
       \A j \in 1..Len(result.routes) :
          \A k \in 0..Len(result.routes[j].stops) :
             /\ RunningPallets(result.routes[j].stops, k) >= 0
             /\ RunningPallets(result.routes[j].stops, k) <= settings.MAX_PALLETS

\* A Solution with a route on which two shipments ride together and fill the
\* vehicle to its capacity.
C2_Witness ==
    /\ Returned
    /\ \E j \in 1..Len(result.routes) :
          \E k \in 2..Len(result.routes[j].stops) :
             /\ result.routes[j].stops[k][1] = "pickup"
             /\ RunningPallets(result.routes[j].stops, k) = settings.MAX_PALLETS

\* C3: for every input shipment exactly one holds in the returned Solution:
\* its pickup and its delivery are both in one single route, or it is
\* unassigned and has no stop in any route.
C3_Completeness ==
    Returned =>
       \A k \in 1..Len(shipments) :
          \/ PlacedWhole(k) /\ k \notin result.unassigned_shipments
          \/ RoutesOf(k) = {} /\ k \in result.unassigned_shipments

\* C4: every shipment assigned in a returned Solution has its pickup and its
\* delivery in the same route, the pickup at the smaller index.
C4_Precedence ==
    Returned =>
       \A k \in 1..Len(shipments) :
          RoutesOf(k) # {} =>
             \E j \in 1..Len(result.routes) :
                \E p \in StopIndices(result.routes[j].stops, "pickup", k) :
                   \E d \in StopIndices(result.routes[j].stops, "delivery", k) :
                      /\ p < d
                      /\ RoutesOf(k) = {j}

\* C5: a call with more shipments than MAX_SHIPMENTS surfaces a
\* ResourceExhaustedError to its caller.
C5_ResourceExhaustedSurfaces ==
    (pc = "done" /\ Len(shipments) > settings.MAX_SHIPMENTS) =>
       /\ result.kind = "raised"
       /\ result.type = "ResourceExhaustedError"

\* C6: a call that fails a validation-class check (too many shipments,
\* missing coordinates) builds no data model or matrix and runs no search.
C6_ValidationBeforeMatrix ==
    (\/ Len(shipments) > settings.MAX_SHIPMENTS
     \/ \E i \in 1..Len(shipments) : ~shipments[i].located) =>
       /\ data = NoData
       /\ routing = NoRouting
       /\ ~searched

\* A call with too many shipments ended, with an error and nothing built.
C6_Witness ==
    /\ pc = "done"
    /\ Len(shipments) > settings.MAX_SHIPMENTS
    /\ result.kind = "raised"
    /\ data = NoData
    /\ ~searched

\* C7: when every shipment alone exceeds the vehicle capacity, optimize
\* returns a Solution with no route and every shipment unassigned.
C7_InfeasibleBatchIsSolution ==
    (/\ pc = "done"
     /\ RunsToSearch
     /\ shipments # <<>>
     /\ \A i \in 1..Len(shipments) : shipments[i].pallet_count > settings.MAX_PALLETS) =>
       /\ result.kind = "Solution"
       /\ result.routes = <<>>
       /\ result.unassigned_shipments = 1..Len(shipments)

\* C8: when some shipments fit a vehicle and others do not, optimize returns
\* a Solution with the ones that do not fit unassigned and the others routed.
C8_PartialPlacement ==
    (/\ pc = "done"
     /\ RunsToSearch
     /\ \E i \in 1..Len(shipments) : shipments[i].pallet_count > settings.MAX_PALLETS
     /\ \E i \in 1..Len(shipments) : shipments[i].pallet_count <= settings.MAX_PALLETS) =>
       /\ result.kind = "Solution"
       /\ \A i \in 1..Len(shipments) :
             shipments[i].pallet_count > settings.MAX_PALLETS
                => i \in result.unassigned_shipments /\ RoutesOf(i) = {}

\* C9: when every shipment fits a vehicle, there are at least as many
\* vehicles as shipments and the route time limit admits all stops on one
\* route, optimize returns a Solution with a route and nothing unassigned;
\* one shipment and one vehicle give the single route pickup 1, delivery 1.
C9_FeasibleInputIsRouted ==
    (/\ pc = "done"
     /\ RunsToSearch
     /\ shipments # <<>>
     /\ \A i \in 1..Len(shipments) : shipments[i].pallet_count <= settings.MAX_PALLETS
     /\ Len(shipments) <= settings.MAX_VEHICLES
     /\ settings.MAX_ROUTE_TIME >= 2 * Len(shipments) + 1) =>
       /\ result.kind = "Solution"
       /\ Len(result.routes) >= 1
       /\ result.unassigned_shipments = {}
       /\ (Len(shipments) = 1 /\ settings.MAX_VEHICLES = 1) =>
             /\ Len(result.routes) = 1
             /\ result.routes[1].stops = <<(<<"pickup", 1>>), (<<"delivery", 1>>)>>

\* Running pallet sum of the first k objects of a route given to
\* validate_solution.
ValidatedPallets(route, k) ==
    SumSeq([i \in 1..k |->
               IF route[i].kind = "pickup" THEN route[i].pallet_count
               ELSE 0 - route[i].pallet_count])

\* C10: validate_solution returns (False, error) for a solution in which some
\* prefix of a route has a running pallet sum outside [0, capacity].
C10_ValidateRechecksCapacity ==
    (/\ verdict # NoVerdict
     /\ \E j \in 1..Len(validated) :
           /\ \A i \in 1..Len(validated[j]) : validated[j][i].kind # "shipment"
           /\ \E k \in 0..Len(validated[j]) :
                 \/ ValidatedPallets(validated[j], k) < 0
                 \/ ValidatedPallets(validated[j], k) > MAX_PALLETS) =>
       ~verdict.is_valid

\* Every object of every validated route is a stop (it has is_pickup).
AllStops == \A j \in 1..Len(validated) :
               \A i \in 1..Len(validated[j]) : validated[j][i].kind # "shipment"

\* The stack of a route before its stop i: empty at the start, pushed on each
\* pickup, popped on each delivery that matches its top.
RECURSIVE StackBefore(_, _)
StackBefore(route, i) ==
    IF i = 1 THEN <<>>
    ELSE LET before == StackBefore(route, i - 1)
             stop == route[i - 1]
         IN IF stop.kind = "pickup" THEN Append(before, stop.id)
            ELSE IF before # <<>> /\ before[Len(before)] = stop.id
                 THEN SubSeq(before, 1, Len(before) - 1)
            ELSE before

\* Stop i of the route is a delivery that does not match the top of the stack.
Mismatch(route, i) ==
    /\ route[i].kind = "delivery"
    /\ LET before == StackBefore(route, i)
       IN before = <<>> \/ before[Len(before)] # route[i].id

\* C11: with the LIFO dimension enabled, validate_solution returns
\* (False, "LIFO constraint violation") exactly when some route has a delivery
\* that differs from the top of that route's stack or meets an empty stack;
\* otherwise it reports no LIFO violation.
C11_ValidateLifoExactly ==
    (verdict # NoVerdict /\ AllStops) =>
       (verdict = Verdict(FALSE, "LIFO constraint violation")
          <=> /\ configs["lifo"].enabled
              /\ \E j \in 1..Len(validated) :
                    \E i \in 1..Len(validated[j]) : Mismatch(validated[j], i))

\* A second route whose delivery finds the stack empty, after a first route
\* that left its own pickup on its stack, is reported.
C11_Witness ==
    /\ verdict = Verdict(FALSE, "LIFO constraint violation")
    /\ Len(validated) = 2
    /\ Len(validated[1]) = 1
    /\ validated[1][1].kind = "pickup"
    /\ Len(validated[2]) >= 1
    /\ validated[2][1].kind = "delivery"
    /\ validated[2][1].id = validated[1][1].id

\* The phase changes the engine may make within one call.
PhaseOrder ==
    {<<"Idle", "Constructing">>, <<"Constructing", "Improving">>,
     <<"Constructing", "Failed">>, <<"Improving", "Done">>}

\* C12: within one optimize call the engine's phases occur only in the order
\* Idle, Constructing, Improving, Done, or Idle, Constructing, Failed when no
\* first assignment exists; nothing follows Done or Failed but a new call.
C12_PhaseOrder ==
    [][/\ \/ engine'.phase = engine.phase
          \/ <<engine.phase, engine'.phase>> \in PhaseOrder
          \/ pc' = "start" /\ engine'.phase = "Idle"
       /\ (engine.phase # "Failed" /\ engine'.phase = "Failed")
             => engine.feasible = {}]_vars

\* A call whose search went through Improving to Done and returned a Solution.
C12_Witness ==
    /\ pc = "done"
    /\ engine.phase = "Done"
    /\ engine.elapsed >= MAX_COMPUTATION_TIME
    /\ result.kind = "Solution"

\* The time limit has expired during Improving.
Expired ==
    /\ engine.phase = "Improving"
    /\ engine.elapsed >= settings.MAX_COMPUTATION_TIME

\* C13: once MAX_COMPUTATION_TIME has expired during Improving the engine
\* applies no further move, the call reaches Done, and what it returns is the
\* best assignment found up to the expiry.
C13_TimeLimit ==
    /\ [][Expired => /\ engine'.best = engine.best
                     /\ engine'.elapsed = engine.elapsed
                     /\ engine'.phase = "Done" => assignment' = engine.best]_vars
    /\ [](pc = "done" /\ engine.phase = "Done"
            => result = _create_solution(data, engine.best.routes))
    /\ (Expired ~> engine.phase = "Done")

\* The limit expired on an assignment that a round of local search had
\* improved, and that assignment was returned.
C13_Witness ==
    /\ pc = "done"
    /\ engine.phase = "Done"
    /\ engine.elapsed >= settings.MAX_COMPUTATION_TIME
    /\ Len(engine.best.routes) = 1
    /\ Len(shipments) >= 2
    /\ result.kind = "Solution"
    /\ result.routes[1].stops = [i \in 1..(2 * Len(shipments)) |-> StopOf(engine.best.routes[1][i])]

\* C16: optimize calls share no mutable state: what a call reads of the
\* monitoring state at its end is what the same call wrote, never a value
\* written by another call.
C16_CallsAreIndependent ==
    pc = "done" => stats = "this"

\* C17: an unexpected failure while the constraints are built or the search
\* runs aborts the call with an OptimizationError that carries the message of
\* the underlying cause, and no Solution is returned.
C17_FailureAborts ==
    /\ [][(pc = "except" /\ pc' # "except")
            => exc' = Exception("OptimizationError", exc.message)]_vars
    /\ [](pc = "except" => retval = Unset)
    /\ [](pc = "done" /\ exc # NoException
            => /\ result = Raised(exc)
               /\ result.type = "OptimizationError"
               /\ retval = Unset)
    /\ [](pc = "done" /\ routing # NoRouting /\ ~HasAttr(settings, "MAX_ROUTE_TIME")
            => result = Raised(Exception("OptimizationError", "MAX_ROUTE_TIME")))

\* A call that failed while building the time dimension, after the capacity
\* dimension had been posted.
C17_Witness ==
    /\ pc = "done"
    /\ routing # NoRouting
    /\ routing.Capacity.posted
    /\ result = Raised(Exception("OptimizationError", "MAX_ROUTE_TIME"))

\* C18: each dimension is toggled by its own enabled flag: once optimize has
\* built its constraints, the capacity, LIFO and time dimensions are posted
\* exactly when their flags are true.
C18_TogglesAreIndependent ==
    pc = "solve" =>
       /\ routing.Capacity.posted <=> configs["capacity"].enabled
       /\ routing.LIFO.posted <=> configs["lifo"].enabled
       /\ routing.Time.posted <=> configs["time_windows"].enabled

\* Smallest cumulative time at stop k of route r: the travel times from the
\* depot along the route, without waiting.
EarliestArrival(d, r, k) ==
    _get_time_callback(d, d.depot, r[1])
    + SumSeq([i \in 1..(k - 1) |-> _get_time_callback(d, r[i], r[i + 1])])

\* C19: with the time-window dimension enabled, in every route of a returned
\* Solution the cumulative time at each stop that has a window lies within
\* the window (so the earliest possible arrival is not past its end), and the
\* cumulative time at the route's end is at most the maximum route duration.
C19_TimeWindowInvariant ==
    (Returned /\ configs["time_windows"].enabled) =>
       \A j \in 1..Len(assignment.routes) :
          LET r == assignment.routes[j]
          IN /\ \A k \in 1..Len(r) :
                   data.time_windows[r[k]] # Omitted =>
                      EarliestArrival(data, r, k) <= data.time_windows[r[k]][2]
             /\ TimeCumulEnd(data, r) <= settings.MAX_ROUTE_TIME

\* C20: shipment k (from 0) has pickup node 2k and delivery node 2k+1 with
\* demands +pallet_count and -pallet_count, the depot has demand 0, and the
\* pairs the constraint model links are exactly the pairs (2k, 2k+1).
C20_NodeModel ==
    pc = "solve" =>
       /\ \A k \in 0..(Len(shipments) - 1) :
             /\ data.demands[PickupNode(k)] = shipments[k + 1].pallet_count
             /\ data.demands[DeliveryNode(k)] = 0 - shipments[k + 1].pallet_count
       /\ data.demands[data.depot] = 0
       /\ routing.pairs = {<<PickupNode(k), DeliveryNode(k)>> :
                              k \in 0..(Len(shipments) - 1)}

\* Python's == between two values process_excel returned.
ExcelResultEq(a, b) ==
    /\ a.success = b.success
    /\ a.errors = b.errors
    /\ Len(a.shipments) = Len(b.shipments)
    /\ \A i \in 1..Len(a.shipments) : ShipmentEq(a.shipments[i], b.shipments[i])

\* C21: a Shipment written with to_dict and read back with from_dict equals
\* the Shipment it came from, so two process_excel calls on the same file,
\* the first parsing it and the second reading its cache, return equal
\* results.
C21_RoundTrip ==
    \A i \in 1..Len(data_service.results) :
       \A j \in (i + 1)..Len(data_service.results) :
          data_service.results[i].file = data_service.results[j].file =>
             ExcelResultEq(data_service.results[i].returned,
                           data_service.results[j].returned)

\* C22: a call with a shipment whose origin or destination has no
\* coordinates (and no more shipments than allowed) ends with a
\* GeocodingDependencyError raised to the caller, with no data model or
\* matrix built and no search run.
C22_MissingCoordinatesFailFast ==
    (/\ pc = "done"
     /\ ~TooManyShipments(shipments, settings)
     /\ MissingCoordinates(shipments)) =>
       /\ result.kind = "raised"
       /\ result.type = "GeocodingDependencyError"
       /\ data = NoData
       /\ routing = NoRouting
       /\ ~searched

\* A weight or penalty is invalid when it is negative.
ValidConfig(config) == config.weight >= 0 /\ config.penalty >= 0

\* C23: an update_config call that would put a negative weight or penalty in
\* force is rejected with a ConstraintConfigurationError, and while an
\* optimize call runs every constraint type's configuration is valid.
C23_InvalidConfigRejected ==
    /\ (/\ config_call.made
        /\ config_call.constraint_type \in ConstraintTypes
        /\ \/ config_call.weight = <<-1>>
           \/ config_call.penalty = <<-1>>)
          => config_error = "ConstraintConfigurationError"
    /\ pc \notin {"idle", "done"} =>
          \A t \in ConstraintTypes : ValidConfig(configs[t])

\* C29: an update_config call with a known constraint type leaves every other
\* type's configuration as it was, sets enabled, and changes weight and
\* penalty only when they are supplied; a call with an unknown type raises
\* ValueError and changes no configuration.  Nothing else changes a
\* configuration.
C29_UpdateConfigFrame ==
    [][/\ configs' # configs => config_call' # config_call
       /\ config_call' # config_call =>
             LET call == config_call'
                 t == call.constraint_type
             IN IF t \notin ConstraintTypes
                THEN /\ configs' = configs
                     /\ config_error' = "ValueError"
                ELSE /\ \A o \in ConstraintTypes \ {t} : configs'[o] = configs[o]
                     /\ configs'[t].enabled = call.enabled
                     /\ configs'[t].weight =
                           IF call.weight = Omitted THEN configs[t].weight
                           ELSE call.weight[1]
                     /\ configs'[t].penalty =
                           IF call.penalty = Omitted THEN configs[t].penalty
                           ELSE call.penalty[1]
                     /\ config_error' = None]_vars

\* A call that supplied no weight found a weight set by an earlier call and
\* kept it, while another type still has its initial configuration.
C29_Witness ==
    /\ config_call.made
    /\ config_call.constraint_type = "lifo"
    /\ config_call.weight = Omitted
    /\ ~config_call.enabled
    /\ configs["lifo"] = [enabled |-> FALSE, weight |-> -1, penalty |-> 1000]
    /\ configs["capacity"] = InitialConfigs["capacity"]

\* C24: no Shipment exists with a pallet count outside 1..26: building one is
\* rejected, and every shipment process_excel returns after validating its
\* rows has a pallet count within 1..26.
C24_PalletCountRange ==
    /\ \A i \in 1..Len(data_service.built) :
          data_service.built[i].pallet_count \in 1..26
    /\ \A i \in 1..Len(data_service.results) :
          \A k \in 1..Len(data_service.results[i].returned.shipments) :
             data_service.results[i].returned.shipments[k].pallet_count \in 1..26

\* The first solution strategy has ended and no round of local search has
\* run yet: engine.best is what Constructing produced.
ConstructingEnded ==
    \/ engine.phase = "Failed"
    \/ engine.phase = "Improving" /\ engine.elapsed = 0

\* Shipment k (from 1) on a route of its own satisfies every posted dimension.
FitsAlone(k) ==
    DimensionsOK(routing, <<PickupNode(k - 1), DeliveryNode(k - 1)>>)

\* Nodes on the routes of what Constructing produced.
SeedNodes ==
    IF engine.best.found
    THEN UNION {Range(engine.best.routes[i]) : i \in 1..Len(engine.best.routes)}
    ELSE {}

\* C25: Constructing ends only when no unassigned pair has a feasible
\* insertion left, and the pairs left out are the unassigned set: with a
\* vehicle for every shipment, a shipment that fits a vehicle of its own is
\* on a route of the assignment Constructing ends with, and one that fits no
\* vehicle is on none.
C25_ConstructionIsMaximal ==
    (ConstructingEnded /\ Len(shipments) <= settings.MAX_VEHICLES) =>
       \A k \in 1..Len(shipments) :
          IF FitsAlone(k)
          THEN {PickupNode(k - 1), DeliveryNode(k - 1)} \subseteq SeedNodes
          ELSE {PickupNode(k - 1), DeliveryNode(k - 1)} \cap SeedNodes = {}

\* Shipment k (from 1) rides as one unit in the assignment a: its pickup and
\* its delivery are on the same route, the pickup first.
PlacedAsUnit(a, k) ==
    \E i \in 1..Len(a) :
       /\ {PickupNode(k - 1), DeliveryNode(k - 1)} \subseteq Range(a[i])
       /\ Pos(a[i], PickupNode(k - 1)) < Pos(a[i], DeliveryNode(k - 1))

\* C26: in every state of Improving, and at Done, the assignment the engine
\* holds satisfies the posted constraints and has every shipment's pickup and
\* delivery together on one route, pickup first (moves treat the pair as one
\* unit, so no shipment is ever split or half placed).
C26_PairsMoveAsUnits ==
    (engine.phase \in {"Improving", "Done"} /\ engine.best.found) =>
       /\ engine.phase = "Improving" => engine.best.routes \in engine.feasible
       /\ \A k \in 1..Len(shipments) : PlacedAsUnit(engine.best.routes, k)

\* The route the admitted assignment consists of.
AdmittedRoute == assignment.routes[1]

\* C27: the constraints add_lifo_constraints posts make every request's
\* pickup come before its delivery on the route, but they admit the order
\* pickup A, pickup B, deliver A, deliver B, and validate_solution's stack
\* check rejects the routes they admit that break stack discipline.
C27_LifoIsPrecedenceOnly ==
    (assignment.found /\ routing.LIFO.posted) =>
       LET half == routing.data.num_locations \div 2
       IN /\ \A request \in 0..(half - 1) :
                Pos(AdmittedRoute, request) < Pos(AdmittedRoute, request + half)
          /\ (verdict # NoVerdict /\ configs["lifo"].enabled) =>
                (verdict = Verdict(FALSE, "LIFO constraint violation")
                   <=> ~StackNeverMismatches(
                          [i \in 1..Len(AdmittedRoute) |->
                              <<validated[1][i].kind, validated[1][i].id>>], 1, <<>>))

\* The posted constraints admitted pickup A, pickup B, deliver A, deliver B,
\* and validate_solution rejected it.
C27_Witness ==
    /\ assignment.found
    /\ routing.LIFO.posted
    /\ AdmittedRoute = <<0, 1, 2, 3>>
    /\ [i \in 1..4 |-> <<validated[1][i].kind, validated[1][i].id>>]
          = <<(<<"pickup", 1>>), (<<"pickup", 2>>), (<<"delivery", 1>>), (<<"delivery", 2>>)>>
    /\ verdict = Verdict(FALSE, "LIFO constraint violation")

\* Indices of the stops of one kind that a validated route has for id.
ValidatedIndices(route, kind, id) ==
    {i \in 1..Len(route) : route[i].kind = kind /\ route[i].id = id}

\* C28: in every solution validate_solution accepts with LIFO enabled, each
\* shipment that appears in a route appears there exactly once as a pickup and
\* exactly once, later, as a delivery, so nothing picked up stays on board at
\* the route's last stop.
C28_AcceptedIsWellFormed ==
    (verdict # NoVerdict /\ verdict.is_valid /\ configs["lifo"].enabled) =>
       \A j \in 1..Len(validated) :
          \A i \in 1..Len(validated[j]) :
             LET id == validated[j][i].id
                 pickups == ValidatedIndices(validated[j], "pickup", id)
                 deliveries == ValidatedIndices(validated[j], "delivery", id)
             IN /\ Cardinality(pickups) = 1
                /\ Cardinality(deliveries) = 1
                /\ \A p \in pickups : \A d \in deliveries : p < d

\* C30: a call that started monitoring has stopped it exactly once when
\* control is back with the caller, whether it returned a Solution, returned
\* no solution or raised; until then monitoring has not been stopped.
C30_MonitoringStoppedOnce ==
    /\ monitor.stopped <= monitor.started
    /\ pc = "done" => monitor.started = 1 /\ monitor.stopped = 1
    /\ pc \notin {"idle", "done"} => monitor.stopped = 0

\* A call refused for carrying too many shipments has raised to its caller
\* with monitoring started and stopped once.
C30_Witness ==
    /\ pc = "done"
    /\ TooManyShipments(shipments, settings)
    /\ result.kind = "raised"
    /\ monitor.started = 1
    /\ monitor.stopped = 1

====
